---------------------------- MODULE Spec2Model ----------------------------
(***************************************************************************)
(* Model of the two Tuya sensor serverless handlers:                       *)
(*   - the cached two-device handler   (src/unnamed/part_000)              *)
(*   - the single-device handler       (src/api/temp_hum.js)               *)
(* One process serves a bounded number of invocations; each invocation is  *)
(* an async function whose suspension points (the awaits on fetch) split   *)
(* it into atomic steps.  The upstream platform is an adversary choosing   *)
(* the reply of every call that was issued.                                *)
(***************************************************************************)
EXTENDS Integers, Sequences, FiniteSets, TLC

\* ------------------------------------------------------------- bounds
MaxInv == 2          \* invocations the process serves
MaxTicks == 1        \* clock advances observed
MaxProps == 3        \* length of a property list given to the extractor alone

\* ------------------------------------------------------------- constants
CACHE_DURATION == 5 * 60 * 1000
HumidityCap == 65
TempDivisor == 10

Inv == 1..MaxInv
Slots == {1, 2}                         \* 1: DEVICE_ID, 2: DEVICE_ID_2
Endpoints == {"multi", "single"}
Methods == {"GET", "POST", "OPTIONS"}
\* Time is in milliseconds.  The clock advances in steps of one cache lifetime:
\* an entry is looked at when its age is 0, CACHE_DURATION, 2 * CACHE_DURATION, ...
TickStep == CACHE_DURATION

null == [isNull |-> TRUE]               \* JavaScript null
undefined == "undefined"                \* an unset environment variable

\* process.env as read once at module load
FullEnv ==
    [CLIENT_KEY |-> "key", CLIENT_SECRET |-> "secret",
     DEVICE_ID |-> "D1", WINE_DEVICE_ID |-> "D2"]
Envs ==
    {FullEnv,
     [FullEnv EXCEPT !.CLIENT_SECRET = undefined]}

\* ------------------------------------------------------------- upstream replies
Prop(c, v) == [code |-> c, value |-> v]

TokenOkData == [success |-> TRUE, result |-> [access_token |-> "T1"]]
TokenErrData == [success |-> FALSE, msg |-> "sign invalid"]
NetworkError == [rejected |-> TRUE, message |-> "fetch failed"]
Reply(st, d) == [rejected |-> FALSE, status |-> st, data |-> d]

\* what the platform may answer to the token call; the two failing replies
\* fail on one test of the handler each (success flag, HTTP status)
TokenReplies ==
    {Reply(200, TokenOkData), Reply(200, TokenErrData),
     Reply(401, TokenOkData), NetworkError}

DeviceOk(props) == [success |-> TRUE, result |-> [properties |-> props]]
DeviceErrData == [success |-> FALSE, msg |-> "permission deny"]
CompleteList == <<Prop("temp_current", 235), Prop("humidity_value", 70)>>
IncompleteList == <<Prop("temp_current", 235)>>
DeviceReplies ==
    {Reply(200, DeviceOk(CompleteList)), Reply(200, DeviceOk(IncompleteList)),
     Reply(200, DeviceErrData), Reply(500, DeviceOk(CompleteList)), NetworkError}

\* Response.ok of node-fetch: status in the range 200-299
Ok(reply) == reply.status >= 200 /\ reply.status <= 299

\* storedAt is a history variable: Date.now() at the latest cache write
\* endpoint is the serverless function the process hosts
\* data and sensorData are the argument and the result of extractSensorData when
\* the extractor is run on its own (ExtractSpec)
VARIABLES env, endpoint, clock, ticks, cachedData, lastFetchTimestamp, storedAt, inv,
          data, sensorData
vars == <<env, endpoint, clock, ticks, cachedData, lastFetchTimestamp, storedAt, inv,
          data, sensorData>>
cache == <<cachedData, lastFetchTimestamp>>

\* ------------------------------------------------------------- extraction
\* mutant: the last matching element is taken instead of the first
MinOf_Last(S) == CHOOSE x \in S : \A y \in S : x >= y

MinOf(S) == CHOOSE x \in S : \A y \in S : x <= y
MathMin(a, b) == IF a <= b THEN a ELSE b
\* mutant: the quotient is truncated toward zero
MathFloorDiv_Truncate(a, b) == IF a >= 0 THEN a \div b ELSE -((-a) \div b)

\* mutant: the quotient is rounded to the nearest integer
MathFloorDiv_Round(a, b) == (2 * a + b) \div (2 * b)

MathFloorDiv(a, b) == a \div b          \* Math.floor(a / b), b > 0

\* data.result?.properties?.find(s => s.code === c1 || s.code === c2)?.value
\* <<>> stands for undefined, <<v>> for the value found
FindValue(d, codes) ==
    IF "result" \in DOMAIN d /\ "properties" \in DOMAIN d.result
    THEN LET props == d.result.properties
             idx == {k \in 1..Len(props) : props[k].code \in codes}
         IN IF idx = {} THEN <<>> ELSE <<props[MinOf(idx)].value>>
    ELSE <<>>

TemperatureOf(d) == FindValue(d, {"temp_current", "va_temperature"})

\* mutant: the second humidity alias is not looked for
HumidityOf_OneAlias(d) == FindValue(d, {"humidity_value"})

HumidityOf(d) == FindValue(d, {"humidity_value", "va_humidity"})

\* mutant: a reading without humidity is returned instead of null
extractSensorData_TemperatureOnly(d) ==
    LET temperature == TemperatureOf(d)
        humidity == HumidityOf(d)
    IN IF temperature = <<>>
       THEN null
       ELSE IF humidity = <<>>
       THEN [temperature |-> MathFloorDiv(temperature[1], TempDivisor)]
       ELSE [temperature |-> MathFloorDiv(temperature[1], TempDivisor),
             humidity |-> MathMin(humidity[1], HumidityCap)]

extractSensorData(d) ==
    LET temperature == TemperatureOf(d)
        humidity == HumidityOf(d)
    IN IF temperature = <<>> \/ humidity = <<>>
       THEN null
       ELSE [temperature |-> MathFloorDiv(temperature[1], TempDivisor),
             humidity |-> MathMin(humidity[1], HumidityCap)]

\* { ...reading, unit: 'celsius' }; spreading null contributes no field
WithUnit(reading) ==
    [k \in (DOMAIN reading \ {"isNull"}) \cup {"unit"} |->
        IF k = "unit" THEN "celsius" ELSE reading[k]]

responseDataOf(d1, d2) == [device |-> WithUnit(d1), wine_device |-> WithUnit(d2)]

\* mutant: the check looks at the first device only
BothComplete_FirstOnly(s1, s2) == s1 # null

\* if (!device1SensorData || !device2SensorData) is not taken
BothComplete(s1, s2) == s1 # null /\ s2 # null

\* ------------------------------------------------------------- requests
\* const nonce = ''
nonce == ""
\* crypto.createHash('sha256').update('').digest('hex')
EmptyContentHash == "e3b0c44298fc1c149afbf4c8996fb92427ae41e4649b934ca495991b7852b855"
tokenPath == "/v1.0/token?grant_type=1"
\* `/v2.0/cloud/thing/${deviceId}/shadow/properties`
apiPath(deviceId) == <<"/v2.0/cloud/thing/", deviceId, "/shadow/properties">>
\* `${method}\n${contentHash}\n\n${path}`: the lines of the string, in order
stringToSign(method, path) == <<method, EmptyContentHash, "", path>>
\* the concatenations that are signed, kept as the sequence of their parts
stringToHmacForToken(t) ==
    <<env.CLIENT_KEY, t, nonce, stringToSign("GET", tokenPath)>>

\* mutant: the device message is built like the token message, without the token
stringToHmac_NoToken(deviceId, accessToken, t) ==
    <<env.CLIENT_KEY, t, nonce, stringToSign("GET", apiPath(deviceId))>>

stringToHmac(deviceId, accessToken, t) ==
    <<env.CLIENT_KEY, accessToken, t, nonce, stringToSign("GET", apiPath(deviceId))>>
\* HMAC-SHA256 under the access secret, upper-case hex: kept as what it signs
Hmac(message) == [key |-> env.CLIENT_SECRET, message |-> message]

\* the headers of the two requests
TokenCall(t) ==
    [kind |-> "token", client_id |-> env.CLIENT_KEY, sign |-> Hmac(stringToHmacForToken(t)),
     t |-> t, nonce |-> nonce]

DeviceCall(deviceId, accessToken, t) ==
    [kind |-> "device", deviceId |-> deviceId, client_id |-> env.CLIENT_KEY,
     access_token |-> accessToken, sign |-> Hmac(stringToHmac(deviceId, accessToken, t)),
     t |-> t, nonce |-> nonce]

DeviceIdOf(slot) == IF slot = 1 THEN env.DEVICE_ID ELSE env.WINE_DEVICE_ID

\* mutant: the token call is issued a second time
IssueToken_Twice(calls) == Append(Append(calls, [kind |-> "token"]), [kind |-> "token"])

\* the log of calls issued to the platform: the token call ...
IssueToken(calls) == Append(calls, [kind |-> "token"])
\* ... and one shadow-properties query per device of the handler
IssueQueries(calls, slots) ==
    calls \o [k \in 1..Len(slots) |-> [kind |-> "device", slot |-> slots[k]]]

\* ------------------------------------------------------------- responses
NoRes == [sent |-> 0, status |-> 0, body |-> null]
Send(res, status, body) == [sent |-> res.sent + 1, status |-> status, body |-> body]

MethodNotAllowed ==
    [error |-> "Method Not Allowed", message |-> "Only GET requests are supported."]
TokenFailure(tokenData) ==
    [error |-> "Failed to fetch access token from Tuya API", details |-> tokenData]
DeviceFailure(d) ==
    [error |-> "Failed to fetch data from Tuya API", details |-> d]
InternalError(msg) == [error |-> "Internal Server Error", message |-> msg]
KeyTypeError == [text |-> "The \"key\" argument must be of type string"]
ResultTypeError == [text |-> "Cannot read properties of undefined (reading 'access_token')"]
FetchError(reply) == [text |-> reply.message]
DeviceError(deviceId, d) ==
    [text |-> "Failed to fetch data for device", deviceId |-> deviceId, data |-> d]
\* mutant: the raw payload of the second device is left out
NotFoundMulti_FirstOnly(s1, s2, d1, d2) ==
    [message |-> "Temperature or humidity data not found for one or both devices. Check device status codes.",
     device1Data |-> s1, device2Data |-> s2,
     fullResponse |-> [device1 |-> d1]]

NotFoundMulti(s1, s2, d1, d2) ==
    [message |-> "Temperature or humidity data not found for one or both devices. Check device status codes.",
     device1Data |-> s1, device2Data |-> s2,
     fullResponse |-> [device1 |-> d1, device2 |-> d2]]
NotFoundSingle(d) ==
    [message |-> "Temperature or humidity data not found for this device. Check device status codes.",
     fullResponse |-> d]

\* the status of the response to a failed token call
TokenFailureStatus(reply) == reply.status

LogHit == "Returning data from cache."
LogMiss == "Cache is stale or empty. Fetching new data from Tuya API."

\* ------------------------------------------------------------- state
\* a fetch: not issued, in flight with its request, or settled with its reply
NoFetch == [state |-> "none"]
Pending(request) == [state |-> "pending", request |-> request]
Settled(reply) == [state |-> "settled", reply |-> reply]
Ignored == [state |-> "ignored"]        \* in flight, its settlement has no effect

IdleInv ==
    [pc |-> "idle", method |-> "GET", now |-> 0,
     token |-> NoFetch, dev |-> [s \in Slots |-> NoFetch],
     calls |-> <<>>, log |-> <<>>, res |-> NoRes]

StartTime == 2 * CACHE_DURATION
NotRun == [notRun |-> TRUE]             \* extractSensorData has not been called

Init ==
    /\ env \in Envs
    /\ endpoint \in Endpoints
    /\ clock = StartTime
    /\ ticks = 0
    /\ cachedData = null
    /\ lastFetchTimestamp = 0
    /\ storedAt = 0
    /\ inv = [i \in Inv |-> IdleInv]
    /\ data = DeviceErrData
    /\ sensorData = NotRun

\* The handler responds and returns: its local `now` is dead from here on, and
\* a device query still in flight (Promise.all has rejected on the other one)
\* settles into a promise nobody awaits.
\* mutant: the catch block returns without sending the 500 response
Finish_SilentCatch(r, status, body) ==
    [r EXCEPT !.pc = "done", !.now = 0,
              !.res = IF status = 500 THEN r.res ELSE Send(r.res, status, body),
              !.dev = [s \in Slots |->
                         IF r.dev[s].state = "pending" THEN Ignored ELSE r.dev[s]]]

Finish(r, status, body) ==
    [r EXCEPT !.pc = "done", !.now = 0, !.res = Send(r.res, status, body),
              !.dev = [s \in Slots |->
                         IF r.dev[s].state = "pending" THEN Ignored ELSE r.dev[s]]]

\* mutant: an entry of age exactly CACHE_DURATION still counts as fresh
CacheHit_Inclusive(now) ==
    cachedData # null /\ now - lastFetchTimestamp <= CACHE_DURATION

\* the cache check of the two-device handler
CacheHit(now) ==
    cachedData # null /\ now - lastFetchTimestamp < CACHE_DURATION

\* crypto.createHmac('sha256', undefined) throws a TypeError
HmacThrows == env.CLIENT_SECRET = undefined

\* Date.now() advancing between steps
Tick ==
    /\ ticks < MaxTicks
    /\ ticks' = ticks + 1
    /\ clock' = clock + TickStep
    /\ UNCHANGED <<data, sensorData, env, endpoint, cachedData, lastFetchTimestamp, storedAt, inv>>

\* An invocation begins: the handler runs synchronously up to its first await
\* (the token fetch) or to a response.
Begin(i, m) ==
    /\ inv[i].pc = "idle"
    /\ \A j \in Inv : j < i => inv[j].pc # "idle"
    /\ LET r == [inv[i] EXCEPT !.method = m]
           hit == [r EXCEPT !.now = clock, !.log = Append(@, LogHit)]
           miss == IF endpoint = "multi"
                   THEN [r EXCEPT !.now = clock, !.log = Append(@, LogMiss)]
                   ELSE r
       IN inv' = [inv EXCEPT ![i] =
            IF m = "OPTIONS" THEN Finish(r, 200, null)
            ELSE IF m # "GET" THEN Finish(r, 405, MethodNotAllowed)
            ELSE IF endpoint = "multi" /\ CacheHit(clock) THEN Finish(hit, 200, cachedData)
            ELSE IF HmacThrows THEN Finish(miss, 500, InternalError(KeyTypeError))
            ELSE [miss EXCEPT !.pc = "awaitToken",
                              !.token = Pending(TokenCall(clock)),
                              !.calls = IssueToken(@)]]
    /\ UNCHANGED <<data, sensorData, env, endpoint, clock, ticks, cachedData, lastFetchTimestamp, storedAt>>

\* mutant: the HTTP status of the token response is not looked at
TokenFailed_FlagOnly(reply) == ~reply.data.success

\* if (!tokenResponse.ok || !tokenData.success)
TokenFailed(reply) == ~Ok(reply) \/ ~reply.data.success

\* The token fetch settles: the handler resumes after `await fetch` and
\* `await tokenResponse.json()` and runs up to the await on the device queries.
TokenReturn(i, reply) ==
    /\ inv[i].pc = "awaitToken"
    /\ LET r == [inv[i] EXCEPT !.token = Settled(reply)]
           accessToken == reply.data.result.access_token
           slots == IF endpoint = "multi" THEN <<1, 2>> ELSE <<1>>
       IN inv' = [inv EXCEPT ![i] =
            IF reply.rejected THEN Finish(r, 500, InternalError(FetchError(reply)))
            ELSE IF TokenFailed(reply)
                 THEN Finish(r, TokenFailureStatus(reply), TokenFailure(reply.data))
            ELSE IF "result" \notin DOMAIN reply.data
                 THEN Finish(r, 500, InternalError(ResultTypeError))
            ELSE [r EXCEPT !.pc = "awaitDevices",
                           !.calls = IssueQueries(@, slots),
                           !.dev = [s \in Slots |->
                                      IF \E k \in 1..Len(slots) : slots[k] = s
                                      THEN Pending(DeviceCall(DeviceIdOf(s), accessToken, clock))
                                      ELSE NoFetch]]]
    /\ UNCHANGED <<data, sensorData, env, endpoint, clock, ticks, cachedData, lastFetchTimestamp, storedAt>>

\* mutant: the success flag of the device response is not looked at
DeviceFailed_StatusOnly(reply) == reply.rejected \/ ~Ok(reply)

\* if (!response.ok || !data.success), or the fetch itself rejected
DeviceFailed(reply) == reply.rejected \/ ~Ok(reply) \/ ~reply.data.success

\* what fetchDeviceData throws: the fetch rejection, or its own Error
ThrownBy(slot, reply) ==
    IF reply.rejected THEN FetchError(reply)
    ELSE DeviceError(DeviceIdOf(slot), reply.data)

\* lastFetchTimestamp = now, the value read before the cache check
FetchedAt(now) == now

\* mutant: the join waits for the other query before it rejects
PromiseAllRejects_WhenAllSettled(failed, otherState) == failed /\ otherState # "pending"

\* Promise.all rejects as soon as one of its promises rejects, whatever state
\* the other one is in
PromiseAllRejects(failed, otherState) == failed

\* A device query of the two-device handler settles.  Promise.all rejects on
\* the first rejection and fulfils when both queries have fulfilled.
DeviceReturnMulti(i, slot, reply) ==
    /\ endpoint = "multi"
    /\ inv[i].dev[slot].state = "pending"
    /\ LET r == inv[i]
           other == IF slot = 1 THEN 2 ELSE 1
           failed == DeviceFailed(reply)
           rejects == PromiseAllRejects(failed, r.dev[other].state)
           rd == [r EXCEPT !.dev[slot] = Settled(reply)]
           joined == ~failed /\ r.dev[other].state = "settled"
           device1Data == rd.dev[1].reply.data
           device2Data == rd.dev[2].reply.data
           device1SensorData == extractSensorData(device1Data)
           device2SensorData == extractSensorData(device2Data)
           complete == BothComplete(device1SensorData, device2SensorData)
           responseData == responseDataOf(device1SensorData, device2SensorData)
       IN /\ inv' = [inv EXCEPT ![i] =
                IF rejects
                THEN Finish(rd, 500, InternalError(ThrownBy(slot, reply)))
                ELSE IF joined /\ ~complete
                THEN Finish(rd, 404, NotFoundMulti(device1SensorData, device2SensorData,
                                                   device1Data, device2Data))
                ELSE IF joined THEN Finish(rd, 200, responseData)
                ELSE rd]
          /\ cachedData' = IF joined /\ complete THEN responseData ELSE cachedData
          /\ lastFetchTimestamp' =
                IF joined /\ complete THEN FetchedAt(r.now) ELSE lastFetchTimestamp
          /\ storedAt' = IF joined /\ complete THEN clock ELSE storedAt
    /\ UNCHANGED <<data, sensorData, env, endpoint, clock, ticks>>

\* raw / 10 of the single-device handler, kept exact as a count of tenths
Tenths(raw) == [tenths |-> raw]

\* The device query of the single-device handler settles.
DeviceReturnSingle(i, reply) ==
    /\ endpoint = "single"
    /\ inv[i].dev[1].state = "pending"
    /\ LET r == [inv[i] EXCEPT !.dev[1] = Settled(reply)]
           body == reply.data
           temperature == TemperatureOf(body)
           humidity == HumidityOf(body)
       IN inv' = [inv EXCEPT ![i] =
            IF reply.rejected THEN Finish(r, 500, InternalError(FetchError(reply)))
            ELSE IF ~Ok(reply) \/ ~body.success
                 THEN Finish(r, reply.status, DeviceFailure(body))
            ELSE IF temperature = <<>> \/ humidity = <<>>
                 THEN Finish(r, 404, NotFoundSingle(body))
            ELSE Finish(r, 200,
                        [deviceId |-> env.DEVICE_ID,
                         temperature |-> Tenths(temperature[1]),
                         humidity |-> humidity[1],
                         unit |-> "celsius",
                         fullTuyaResponse |-> body])]
    /\ UNCHANGED <<data, sensorData, env, endpoint, clock, ticks, cachedData, lastFetchTimestamp, storedAt>>

Next ==
    \/ Tick
    \/ \E i \in Inv, m \in Methods : Begin(i, m)
    \/ \E i \in Inv, reply \in TokenReplies : TokenReturn(i, reply)
    \/ \E i \in Inv, slot \in Slots, reply \in DeviceReplies :
            DeviceReturnMulti(i, slot, reply)
    \/ \E i \in Inv, reply \in DeviceReplies : DeviceReturnSingle(i, reply)

Spec == Init /\ [][Next]_vars

\* Every call issued to the platform returns or fails in the end: fetch settles
\* its promise and the runtime then resumes the awaiting handler.  Requests
\* arrive and the clock advances at no guaranteed moment.
Fairness ==
    \A i \in Inv :
        /\ WF_vars(\E reply \in TokenReplies : TokenReturn(i, reply))
        /\ WF_vars(\E slot \in Slots, reply \in DeviceReplies : DeviceReturnMulti(i, slot, reply))
        /\ WF_vars(\E reply \in DeviceReplies : DeviceReturnSingle(i, reply))

LiveSpec == Init /\ [][Next]_vars /\ Fairness

\* ------------------------------------------------------------- any configuration
\* process.env with each of the four variables set or unset
ConfigEnvs ==
    {[CLIENT_KEY |-> k, CLIENT_SECRET |-> c, DEVICE_ID |-> d1, WINE_DEVICE_ID |-> d2] :
        k \in {"key", undefined}, c \in {"secret", undefined},
        d1 \in {"D1", undefined}, d2 \in {"D2", undefined}}

ConfigInit ==
    /\ env \in ConfigEnvs
    /\ endpoint \in Endpoints
    /\ clock = StartTime
    /\ ticks = 0
    /\ cachedData = null
    /\ lastFetchTimestamp = 0
    /\ storedAt = 0
    /\ inv = [i \in Inv |-> IdleInv]
    /\ data = DeviceErrData
    /\ sensorData = NotRun

ConfigSpec == ConfigInit /\ [][Next]_vars

\* ------------------------------------------------------------- the extractor alone
\* raw values the platform may report for a temperature, a humidity, another code
RawTemperatures == {-10, -5, 0, 5, 9, 10, 15}
RawHumidities == {40, 65, 66}
SampleProps ==
    {Prop(c, v) : c \in {"temp_current", "va_temperature"}, v \in RawTemperatures}
        \cup {Prop(c, v) : c \in {"humidity_value", "va_humidity"}, v \in RawHumidities}
        \cup {Prop("battery_state", 40)}
PropLists == UNION {[1..n -> SampleProps] : n \in 0..MaxProps}
\* device bodies: with a property list, with a result that has no properties,
\* with no result at all
ExtractInputs ==
    {DeviceOk(p) : p \in PropLists}
        \cup {[success |-> TRUE, result |-> [online |-> TRUE]], [success |-> TRUE]}

ExtractInit ==
    /\ env = FullEnv
    /\ endpoint = "multi"
    /\ clock = StartTime
    /\ ticks = 0
    /\ cachedData = null
    /\ lastFetchTimestamp = 0
    /\ storedAt = 0
    /\ inv = [i \in Inv |-> IdleInv]
    /\ data \in ExtractInputs
    /\ sensorData = NotRun

\* const deviceNSensorData = extractSensorData(deviceNData, deviceId)
Extract ==
    /\ sensorData = NotRun
    /\ sensorData' = extractSensorData(data)
    /\ UNCHANGED <<data, env, endpoint, clock, ticks, cachedData, lastFetchTimestamp,
                   storedAt, inv>>

ExtractNext == Extract

ExtractSpec == ExtractInit /\ [][ExtractNext]_vars


\* ======================================================================
\* Properties
\* ======================================================================
Range(seq) == {seq[k] : k \in DOMAIN seq}
CountKind(calls, kind) == Cardinality({k \in DOMAIN calls : calls[k].kind = kind})
CountSlot(calls, slot) ==
    Cardinality({k \in DOMAIN calls : calls[k].kind = "device" /\ calls[k].slot = slot})

\* what the platform answered, read off the reply itself
Answered(f) == f.state = "settled" /\ ~f.reply.rejected
Succeeded(f) ==
    /\ Answered(f)
    /\ f.reply.status \in 200..299
    /\ f.reply.data.success
Failed(f) ==
    /\ Answered(f)
    /\ (f.reply.status \notin 200..299 \/ ~f.reply.data.success)
Threw(f) == f.state = "settled" /\ f.reply.rejected

Multi == endpoint = "multi"
Missed(r) == LogMiss \in Range(r.log)
HitCache(r) == LogHit \in Range(r.log)
Incomplete(f) == Succeeded(f) /\ extractSensorData(f.reply.data) = null
CompleteReading(x) ==
    /\ DOMAIN x = {"temperature", "humidity", "unit"}
    /\ x.temperature \in Int
    /\ x.humidity \in Int

\* the invocation has ended on an error path or on the incomplete-reading path
EndedWithoutReading(r) ==
    /\ r.pc = "done"
    /\ \/ Threw(r.token) \/ Failed(r.token)
       \/ \E s \in Slots : Threw(r.dev[s]) \/ Failed(r.dev[s])
       \/ (\A s \in Slots : Succeeded(r.dev[s])) /\ (\E s \in Slots : Incomplete(r.dev[s]))
       \/ "error" \in DOMAIN r.res.body

\* C1: a step of the two-device handler in which an invocation ends on an error
\* path (token call failed, a device query failed, an exception was thrown) or
\* on the incomplete-reading path leaves cachedData and lastFetchTimestamp as
\* they were, and so does every step in which an invocation does not end.
C1_NoCacheWriteOnFailure ==
    [][\A i \in Inv :
         (Multi /\ inv'[i] # inv[i]
            /\ (inv'[i].pc # "done" \/ EndedWithoutReading(inv'[i])))
         => cache' = cache]_vars

\* an invocation got an incomplete reading while the cache kept an earlier entry
C1_Witness ==
    /\ Multi
    /\ cachedData # null
    /\ \E i \in Inv :
         /\ EndedWithoutReading(inv[i])
         /\ \E s \in Slots : Incomplete(inv[i].dev[s])

\* C2: the cache payload is null, or it holds a complete normalized reading
\* (temperature and humidity both present) for device and for wine_device.
C2_CacheAllOrNothing ==
    cachedData # null =>
        /\ DOMAIN cachedData = {"device", "wine_device"}
        /\ CompleteReading(cachedData.device)
        /\ CompleteReading(cachedData.wine_device)

C2_Witness ==
    /\ cachedData # null
    /\ \E i \in Inv : inv[i].res.status = 200 /\ inv[i].res.body = cachedData

\* the cache check of an invocation, seen as a step
BeginsGet(i) ==
    /\ Multi
    /\ inv[i].pc = "idle"
    /\ inv'[i].pc # "idle"
    /\ inv'[i].method = "GET"
Fresh == cachedData # null /\ clock - lastFetchTimestamp < 5 * 60 * 1000
AnsweredFromCache(i) ==
    /\ inv'[i].pc = "done"
    /\ inv'[i].res = [sent |-> 1, status |-> 200, body |-> cachedData]
    /\ inv'[i].calls = <<>>
    /\ inv'[i].token.state = "none"
    /\ cache' = cache
ProceedsToToken(i) ==
    /\ inv'[i].pc = "awaitToken"
    /\ inv'[i].token.state = "pending"
    /\ CountKind(inv'[i].calls, "token") = 1
    /\ inv'[i].res.sent = 0

\* C3 as claimed: a GET is answered from the cache iff a payload exists and
\* now - fetchedAt < 5 minutes at its cache check; otherwise it proceeds to a
\* token fetch.
C3_HitIffFresh_Claimed ==
    [][\A i \in Inv : BeginsGet(i) =>
         /\ Fresh => AnsweredFromCache(i)
         /\ ~Fresh => ProceedsToToken(i)]_vars

\* C3 amended: a GET is answered from the cache iff a payload exists and
\* now - fetchedAt < 5 minutes at its cache check; otherwise it proceeds to a
\* token fetch if the access secret is configured, and responds 500 without
\* any upstream call if it is not.
C3_HitIffFresh ==
    [][\A i \in Inv : BeginsGet(i) =>
         /\ Fresh => AnsweredFromCache(i)
         /\ ~Fresh =>
              /\ ~AnsweredFromCache(i)
              /\ IF env.CLIENT_SECRET = undefined
                 THEN /\ inv'[i].pc = "done"
                      /\ inv'[i].res.status = 500
                      /\ inv'[i].calls = <<>>
                 ELSE ProceedsToToken(i)]_vars

\* an invocation stored a payload and a later one was answered from the cache
C3_Witness ==
    \E i, j \in Inv :
        /\ Missed(inv[i]) /\ inv[i].res.status = 200
        /\ HitCache(inv[j]) /\ inv[j].res.status = 200
        /\ inv[j].res.body = cachedData
        /\ inv[j].calls = <<>>

\* C4 as claimed: a cache check less than 5 minutes after the moment of the
\* latest store is a hit returning the stored payload, and a cache check 5
\* minutes or more after that moment is a miss.
C4_FreshSinceStore_Claimed ==
    [][\A i \in Inv : (BeginsGet(i) /\ cachedData # null) =>
         IF clock - storedAt < 5 * 60 * 1000
         THEN AnsweredFromCache(i)
         ELSE ~AnsweredFromCache(i)]_vars

\* C5 as claimed: the fetchedAt recorded by a cache write is the time of the write.
C5_FetchedAtIsWriteTime_Claimed ==
    cachedData # null => lastFetchTimestamp = storedAt

\* C6: an invocation has issued a device query only if its token call had
\* returned before with an ok status and the success flag; after a failed or
\* rejected token call it has issued none.
C6_TokenBeforeQueries ==
    \A i \in Inv :
        LET r == inv[i] IN
        /\ CountKind(r.calls, "device") > 0 =>
             /\ Succeeded(r.token)
             /\ r.calls[1].kind = "token"
        /\ (\E s \in Slots : r.dev[s].state # "none") => Succeeded(r.token)
        /\ ~Succeeded(r.token) => CountKind(r.calls, "device") = 0

C6_Witness ==
    /\ \E i \in Inv : inv[i].pc = "awaitDevices" /\ CountKind(inv[i].calls, "device") > 0
    /\ \E i \in Inv : Failed(inv[i].token) /\ inv[i].pc = "done"

\* C7 as claimed: an invocation that misses the cache issues exactly one token
\* call and at most one query per device; one that hits the cache issues none.
C7_NoRetries_Claimed ==
    \A i \in Inv :
        LET r == inv[i] IN
        /\ (Multi /\ Missed(r)) =>
             /\ CountKind(r.calls, "token") = 1
             /\ \A s \in Slots : CountSlot(r.calls, s) <= 1
        /\ (Multi /\ HitCache(r)) => r.calls = <<>>

\* C7 amended: an invocation that misses the cache issues at most one token
\* call, exactly one if the access secret is configured and none if it is not,
\* and at most one query per device, whether those calls succeed or fail; one
\* that hits the cache issues none.
C7_NoRetries ==
    \A i \in Inv :
        LET r == inv[i] IN
        /\ (Multi /\ Missed(r)) =>
             /\ CountKind(r.calls, "token") =
                    (IF env.CLIENT_SECRET = undefined THEN 0 ELSE 1)
             /\ \A s \in Slots : CountSlot(r.calls, s) <= 1
        /\ (Multi /\ HitCache(r)) => r.calls = <<>>

\* an invocation has ended after a failed device query, with one call of each kind
C7_Witness ==
    \E i \in Inv :
        /\ Multi /\ Missed(inv[i]) /\ inv[i].pc = "done"
        /\ \E s \in Slots : Failed(inv[i].dev[s])
        /\ CountKind(inv[i].calls, "token") = 1
        /\ \A s \in Slots : CountSlot(inv[i].calls, s) = 1

\* C8: if the query of either device fails (status not ok, or success flag
\* false) the response is a 500 error and carries no reading.
C8_AllOrNothingBatch ==
    \A i \in Inv :
        (Multi /\ \E s \in Slots : Failed(inv[i].dev[s])) =>
            /\ inv[i].pc = "done"
            /\ inv[i].res.sent = 1
            /\ inv[i].res.status = 500
            /\ "error" \in DOMAIN inv[i].res.body
            /\ "device" \notin DOMAIN inv[i].res.body
            /\ "wine_device" \notin DOMAIN inv[i].res.body

\* one query failed after the other had delivered a complete reading
C8_Witness ==
    /\ Multi
    /\ \E i \in Inv : \E s, o \in Slots :
         /\ Failed(inv[i].dev[s])
         /\ Succeeded(inv[i].dev[o])
         /\ extractSensorData(inv[i].dev[o].reply.data) # null

\* C9 as claimed: after a failed token call (status not ok, or success flag
\* false) the response has a non-2xx status and carries the upstream body.
C9_TokenFailureStatus_Claimed ==
    \A i \in Inv :
        Failed(inv[i].token) =>
            /\ inv[i].pc = "done"
            /\ inv[i].res.status \notin 200..299
            /\ inv[i].res.body.details = inv[i].token.reply.data

\* C10: when both device queries succeed and extraction gives null for at
\* least one device, the response is the 404 carrying the raw payloads of both
\* devices.
C10_IncompleteIsNotFound ==
    \A i \in Inv :
        LET r == inv[i] IN
        (Multi /\ (\A s \in Slots : Succeeded(r.dev[s]))
               /\ (\E s \in Slots : Incomplete(r.dev[s]))) =>
            /\ r.pc = "done"
            /\ r.res.sent = 1
            /\ r.res.status = 404
            /\ "fullResponse" \in DOMAIN r.res.body
            /\ r.res.body.fullResponse =
                   [device1 |-> r.dev[1].reply.data, device2 |-> r.dev[2].reply.data]

\* the first device delivered a complete reading, the second an incomplete one
C10_Witness ==
    /\ Multi
    /\ \E i \in Inv :
         /\ Succeeded(inv[i].dev[1]) /\ ~Incomplete(inv[i].dev[1])
         /\ Incomplete(inv[i].dev[2])
         /\ inv[i].res.status = 404


\* ------------------------------------------------------------- the extractor
\* extractSensorData has been called on data
Extracted == sensorData # NotRun
\* the property list of the device body, <<>> when the body has none
PropertiesOf(d) ==
    IF "result" \in DOMAIN d /\ "properties" \in DOMAIN d.result
    THEN d.result.properties ELSE <<>>
HasAlias(d, codes) == \E k \in DOMAIN PropertiesOf(d) : PropertiesOf(d)[k].code \in codes
TemperatureAliases == {"temp_current", "va_temperature"}
HumidityAliases == {"humidity_value", "va_humidity"}

\* C11: extractSensorData returns a reading exactly when the property list holds
\* at least one temperature alias and at least one humidity alias; it returns
\* null exactly when either measurement has no alias present, which includes a
\* body without a property list.
C11_ReadingIffBothAliases ==
    Extracted =>
        ((sensorData # null) <=>
            (HasAlias(data, TemperatureAliases) /\ HasAlias(data, HumidityAliases)))

\* a reading was extracted from a list that names both measurements only by
\* their second alias
C11_Witness ==
    /\ Extracted /\ sensorData # null
    /\ ~HasAlias(data, {"temp_current", "humidity_value"})


\* positions of the property list whose code is one of codes
Matches(d, codes) == {k \in DOMAIN PropertiesOf(d) : PropertiesOf(d)[k].code \in codes}
\* value of the first element, in list order, that carries exactly this code
FirstOfCode(d, code) ==
    LET ks == Matches(d, {code})
    IN  PropertiesOf(d)[CHOOSE k \in ks : \A m \in ks : k <= m].value
\* value of the first element, in list order, that carries any of the codes
FirstOfAny(d, codes) ==
    LET ks == Matches(d, codes)
    IN  PropertiesOf(d)[CHOOSE k \in ks : \A m \in ks : k <= m].value
BothPresent(d, codes) == \A c \in codes : HasAlias(d, {c})
Floor10(raw) == CHOOSE t \in -100..100 : 10 * t <= raw /\ raw < 10 * t + 10
Capped(raw) == IF raw < HumidityCap THEN raw ELSE HumidityCap

SuccessResponse(r) ==
    /\ r.method = "GET"
    /\ r.res.sent > 0
    /\ r.res.status = 200
    /\ "error" \notin DOMAIN r.res.body
\* raw humidity the platform reported in a settled device query
RawHumidityOf(f) == FirstOfAny(f.reply.data, HumidityAliases)

\* C13 as claimed: the humidity in every success response of both handlers
\* (single and multi, fresh or cached) is min(h, 65) for the raw humidity h the
\* platform reported, hence never above 65.
C13_HumidityCapped_Claimed ==
    \A i \in Inv :
        SuccessResponse(inv[i]) =>
            IF ~Multi
            THEN inv[i].res.body.humidity = Capped(RawHumidityOf(inv[i].dev[1]))
            ELSE IF HitCache(inv[i])
            THEN /\ inv[i].res.body.device.humidity <= HumidityCap
                 /\ inv[i].res.body.wine_device.humidity <= HumidityCap
            ELSE /\ inv[i].res.body.device.humidity = Capped(RawHumidityOf(inv[i].dev[1]))
                 /\ inv[i].res.body.wine_device.humidity = Capped(RawHumidityOf(inv[i].dev[2]))

\* the same statement for the multi-device handler alone
C13_MultiHumidityCapped == Multi => C13_HumidityCapped_Claimed


\* ------------------------------------------------------------- temperature
\* raw temperature the extractor read from data
RawTemperature == FirstOfAny(data, TemperatureAliases)
ReadingExtracted == Extracted /\ sensorData # null
\* the quotient raw / 10 with its fraction dropped, whatever its sign
TruncatedTenth(raw) ==
    CHOOSE t \in -100..100 :
        IF raw >= 0 THEN 10 * t <= raw /\ raw < 10 * t + 10
                    ELSE 10 * t >= raw /\ raw > 10 * t - 10

\* C14: the reported temperature is floor(raw / 10), the greatest integer not
\* above raw / 10: raw 0, 5, 9, 10, 15, -5 give 0, 0, 0, 1, 1, -1.
C14_TemperatureIsFloor ==
    ReadingExtracted =>
        /\ 10 * sensorData.temperature <= RawTemperature
        /\ RawTemperature < 10 * sensorData.temperature + 10
        /\ RawTemperature = 0 => sensorData.temperature = 0
        /\ RawTemperature = 5 => sensorData.temperature = 0
        /\ RawTemperature = 9 => sensorData.temperature = 0
        /\ RawTemperature = 10 => sensorData.temperature = 1
        /\ RawTemperature = 15 => sensorData.temperature = 1
        /\ RawTemperature = -5 => sensorData.temperature = -1

\* a negative raw value that is no multiple of ten was normalized
C14_Witness == ReadingExtracted /\ RawTemperature = -5 /\ sensorData.temperature = -1

\* C15 as claimed: the conversion truncates toward zero, so a raw value between
\* -9 and -1 gives 0.
C15_TruncatesTowardZero_Claimed ==
    ReadingExtracted => sensorData.temperature = TruncatedTenth(RawTemperature)

\* C15: the conversion rounds toward negative infinity: it agrees with
\* truncation for raw values that are non-negative or multiples of ten, and is
\* one below the truncated quotient for every other negative raw value, so a
\* raw value between -9 and -1 gives -1.
C15_RoundsDown ==
    ReadingExtracted =>
        sensorData.temperature =
            IF RawTemperature >= 0 \/ RawTemperature % 10 = 0
            THEN TruncatedTenth(RawTemperature)
            ELSE TruncatedTenth(RawTemperature) - 1

\* a raw value between -9 and -1 was normalized to -1
C15_Witness ==
    /\ ReadingExtracted
    /\ RawTemperature \in -9..-1
    /\ sensorData.temperature = -1
    /\ TruncatedTenth(RawTemperature) = 0


\* ------------------------------------------------------------- signing
\* the string to sign of a GET without body: method, content hash, an empty
\* line for the headers, the url path
SignedLines(path) == <<"GET", EmptyContentHash, "", path>>
TokenInFlight(i) == inv[i].token.state = "pending"
QueryInFlight(i, s) == inv[i].dev[s].state = "pending"
\* the access token the token call of this invocation returned
TokenObtained(i) == inv[i].token.reply.data.result.access_token

\* C16: in both handlers the token call signs clientId, timestamp, nonce and the
\* string to sign, without a token; a device query signs clientId, accessToken,
\* timestamp, nonce and the string to sign, where accessToken is the one this
\* invocation's token call returned and is also the access_token header; the
\* string to sign is method, content hash, empty line and url path; timestamp
\* and nonce are the values of the t and nonce headers of the same request.
C16_SigningInput ==
    \A i \in Inv :
        /\ TokenInFlight(i) =>
               LET q == inv[i].token.request
               IN  q.sign.message =
                       <<q.client_id, q.t, q.nonce, SignedLines("/v1.0/token?grant_type=1")>>
        /\ \A s \in Slots :
               QueryInFlight(i, s) =>
                   LET q == inv[i].dev[s].request
                   IN  /\ Succeeded(inv[i].token)
                       /\ q.access_token = TokenObtained(i)
                       /\ q.sign.message =
                              <<q.client_id, TokenObtained(i), q.t, q.nonce,
                                SignedLines(<<"/v2.0/cloud/thing/", q.deviceId,
                                              "/shadow/properties">>)>>

\* a query of the single-device handler is in flight, and so are the two
\* queries of a multi-device invocation whose token call returned after the
\* clock had moved on since its cache check
C16_Witness ==
    \E i \in Inv :
        /\ QueryInFlight(i, 1)
        /\ Multi => /\ QueryInFlight(i, 2)
                    /\ inv[i].dev[2].request.t > inv[i].now
                    /\ inv[i].dev[2].request.deviceId = env.WINE_DEVICE_ID
        /\ ~Multi => ticks > 0


\* ------------------------------------------------------------- configuration
\* the access id, the access secret or a device id is not configured
ConfigMissing ==
    \/ env.CLIENT_KEY = undefined
    \/ env.CLIENT_SECRET = undefined
    \/ env.DEVICE_ID = undefined
    \/ env.WINE_DEVICE_ID = undefined

\* C17 as claimed: when the access id, the access secret or a device id is
\* absent, a GET of the multi-device handler that misses the cache issues no
\* outbound call and ends with an error response.
C17_MissingConfigGuarded_Claimed ==
    (Multi /\ ConfigMissing) =>
        \A i \in Inv :
            Missed(inv[i]) =>
                /\ inv[i].calls = <<>>
                /\ inv[i].pc = "done"
                /\ inv[i].res.sent = 1
                /\ inv[i].res.status = 500

\* what the code does guard: without the access secret no call is issued
C17_MissingSecretOnly ==
    (Multi /\ env.CLIENT_SECRET = undefined) =>
        \A i \in Inv :
            Missed(inv[i]) =>
                /\ inv[i].calls = <<>>
                /\ inv[i].pc = "done"
                /\ inv[i].res.sent = 1
                /\ inv[i].res.status = 500


\* ------------------------------------------------------------- fail-fast join
\* the query of this slot has settled as a failure
QueryFailed(i, s) == Failed(inv[i].dev[s]) \/ Threw(inv[i].dev[s])
\* the query of this slot was still in flight when the invocation responded
LeftInFlight(i, s) == inv[i].dev[s] = Ignored

\* C18: once one of the two device queries of an invocation has failed, the
\* invocation has produced its error response; it does not wait for the other
\* query, and the response is built from the failed query alone, so it does not
\* depend on how the query still in flight ends.
C18_FailFastJoin ==
    Multi =>
        \A i \in Inv : \A s \in Slots :
            QueryFailed(i, s) =>
                /\ inv[i].pc = "done"
                /\ inv[i].res =
                       [sent |-> 1, status |-> 500,
                        body |-> InternalError(ThrownBy(s, inv[i].dev[s].reply))]
                /\ \A o \in Slots \ {s} : ~QueryFailed(i, o)

\* the first query failed and the error response was sent while the second
\* query was still in flight
C18_Witness ==
    \E i \in Inv :
        /\ Multi
        /\ QueryFailed(i, 1)
        /\ LeftInFlight(i, 2)
        /\ inv[i].res.sent = 1
        /\ inv[i].res.status = 500


\* ------------------------------------------------------------- cache timestamp
\* C19 as claimed: under every interleaving of invocations a cache write never
\* replaces fetchedAt with a smaller value: lastFetchTimestamp never decreases.
C19_FetchedAtNonDecreasing_Claimed ==
    [][lastFetchTimestamp' >= lastFetchTimestamp]_vars


\* ------------------------------------------------------------- one response
Started(i) == inv[i].pc # "idle"
Responded(i) == inv[i].res.sent = 1
\* no response before the request, none while a call is awaited, one at the end
AtMostOneResponse ==
    \A i \in Inv :
        /\ inv[i].res.sent <= 1
        /\ inv[i].pc = "done" <=> Responded(i)

\* C20: every invocation sends exactly one response on every path (OPTIONS,
\* other method, cache hit, token failure, device failure, incomplete reading,
\* success): never two, and, given that every call issued to the platform
\* returns or fails in the end, eventually one.
\* (A response once sent stays sent, so "again and again every invocation that
\* has started has responded" says that each of them eventually responds.)
C20_ExactlyOneResponse ==
    /\ []AtMostOneResponse
    /\ []<>(\A i \in Inv : Started(i) => Responded(i))

\* one invocation answered 200 after a token call and two device queries, and a
\* later one was answered from the cache
C20_Witness ==
    /\ Multi
    /\ \E i, j \in Inv :
        /\ Responded(i) /\ Missed(inv[i]) /\ inv[i].res.status = 200
        /\ Succeeded(inv[i].dev[2])
        /\ Responded(j) /\ HitCache(inv[j])

=============================================================================
